---- MODULE Spec2Model ----
(***************************************************************************)
(* MountFujiSimulation (gpmap/simulate/fuji.py): a genotype-phenotype map  *)
(* whose phenotypes follow the rough Mount Fuji model                      *)
(*     f(g) = roughness(g) - field_strength * hamming(wildtype, g).        *)
(*                                                                         *)
(* Strings are sequences of one-character symbols.  Reals are modelled by  *)
(* integers: a uniform draw from [low, high) is any integer of that        *)
(* interval, and high where floats round to it.  A numpy vector            *)
(* of length n is a function on 1..n (Python index i is TLA+ index i+1).   *)
(***************************************************************************)
EXTENDS Integers, Sequences, FiniteSets

VARIABLES
    wildtype,        \* self.wildtype (GenotypePhenotypeMap)
    mutations,       \* the mutations argument of the constructor
    genotypes,       \* self.genotypes (GenotypePhenotypeMap)
    phenotypes,      \* self.phenotypes
    _field_strength, \* self._field_strength
    _hamming,        \* self._hamming, Unset while the attribute is missing
    _roughness,      \* self._roughness, Unset while the attribute is missing
    lastCall,        \* the call that returned (or raised) last, with its argument
    raised,          \* the exception that call raised, "none" when it returned
    history          \* "default" until set_roughness is called with a range that
                     \* is not None, then "given", and "drawn" once a vector
                     \* that is not all zeros has been stored in self._roughness

vars == <<wildtype, mutations, genotypes, phenotypes, _field_strength,
          _hamming, _roughness, lastCall, raised, history>>

-----------------------------------------------------------------------------
\* Bounds of the model.

\* Longest wildtype the constructor is given.
MaxLength == 2
\* Largest genotype space the constructor is given.
MaxGenotypes == 4
\* Field strengths are 0..MaxFieldStrength.
MaxFieldStrength == 2
\* The numbers in a range argument are 0..MaxRange.
MaxRange == 2

\* An attribute of the instance: Unset while it has not been assigned (a read
\* raises AttributeError), Attr(v) once v has been assigned to it.
Unset == <<>>
Attr(v) == <<v>>

Symbols == {"0", "1", "2"}
\* The alphabets a site may have, each an ordered list of symbols.
Alphabets == {<<"0", "1">>, <<"0", "1", "2">>}
FieldStrengths == 0..MaxFieldStrength
RangeVals == 0..MaxRange

-----------------------------------------------------------------------------
\* Collaborators of the class (gpmap.utils, gpmap.gpm).

\* utils.mutations_to_genotypes: every genotype obtained by varying each site
\* independently over its alphabet, in a fixed order (the last site fastest).
RECURSIVE mutations_to_genotypes(_, _)
mutations_to_genotypes(wt, muts) ==
    IF Len(muts) = 0 THEN << <<>> >>
    ELSE LET h == Head(muts)
             t == mutations_to_genotypes(Tail(wt), Tail(muts))
             m == Len(t)
         IN  [k \in 1..(Len(h) * m) |->
                 <<h[((k - 1) \div m) + 1]>> \o t[((k - 1) % m) + 1]]

\* utils.hamming_distance: the number of positions at which s1 and s2 differ.
RECURSIVE hamming_distance(_, _)
hamming_distance(s1, s2) ==
    IF Len(s1) = 0 \/ Len(s2) = 0 THEN 0
    ELSE (IF Head(s1) # Head(s2) THEN 1 ELSE 0)
         + hamming_distance(Tail(s1), Tail(s2))

\* GenotypePhenotypeMap.n: the number of genotypes.
n == Len(genotypes)

-----------------------------------------------------------------------------
\* numpy.

\* np.zeros(k)
zeros(k) == [i \in 1..k |-> 0]

\* The largest power of two that is at most x, 0 when x < 1.
RECURSIVE pow2_upto(_)
pow2_upto(x) == IF x < 1 THEN 0 ELSE IF x < 2 THEN 1 ELSE 2 * pow2_upto(x \div 2)

\* Whether the sample for the largest u, low + (high - low) * (1 - 2^-53), is
\* rounded to high in 64-bit floats: the difference to high, |high - low| * 2^-53,
\* is then at most half the spacing of the floats on that side of high.
\* 1 + (2 - 1) * (1 - 2^-53) is 2.0, while 0 + (2 - 0) * (1 - 2^-53) is below 2.
rounds_to_high(low, high) ==
    IF low < high THEN high - low <= pow2_upto(high - 1)
    ELSE low - high <= pow2_upto(high)

\* The values one sample of np.random.uniform(low, high) can take:
\* low + (high - low) * u with u in [0, 1), computed in floats.
uniform_values(low, high) ==
    IF low = high THEN {low}
    ELSE (IF low < high THEN low..(high - 1) ELSE (high + 1)..low)
         \cup (IF rounds_to_high(low, high) THEN {high} ELSE {})

\* The vectors np.random.uniform(low, high, size=k) can return.
uniform(low, high, k) == [1..k -> uniform_values(low, high)]

-----------------------------------------------------------------------------
\* Properties of MountFujiSimulation.

\* hamming_get measuring the distance from the first genotype, not the wildtype.
hamming_get_first(cache, wt, gs) ==
    IF cache # Unset THEN cache[1]
    ELSE [i \in 1..Len(gs) |-> hamming_distance(gs[1], gs[i])]

\* The hamming property: the cached vector, computed at the first access.
hamming_get(cache, wt, gs) ==
    IF cache # Unset THEN cache[1]
    ELSE [i \in 1..Len(gs) |-> hamming_distance(wt, gs[i])]

hamming == hamming_get(_hamming, wildtype, genotypes)

\* roughness_get falling back to np.ones.
roughness_get_ones(attr, k) == IF attr # Unset THEN attr[1] ELSE [i \in 1..k |-> 1]

\* The roughness property: the stored vector, zeros while none is stored.
roughness_get(attr, k) == IF attr # Unset THEN attr[1] ELSE zeros(k)

roughness == roughness_get(_roughness, n)

\* The field_strength property (getter).
field_strength == _field_strength

\* The expression build() assigns to self.phenotypes.
fuji(r, c, h) == [i \in 1..Len(h) |-> r[i] - c * h[i]]

-----------------------------------------------------------------------------
\* The constructor.  Init is the state in which __init__ returns.

\* The (wildtype, mutations) pairs the constructor is given: one alphabet per
\* site, the wildtype's symbol among the site's symbols.
Sites == UNION {[1..l -> Alphabets] : l \in 0..MaxLength}

RECURSIVE size(_)
size(muts) == IF Len(muts) = 0 THEN 1 ELSE Len(Head(muts)) * size(Tail(muts))

Range(f) == {f[i] : i \in DOMAIN f}

Wildtypes(muts) ==
    {w \in [1..Len(muts) -> Symbols] : \A i \in 1..Len(muts) : w[i] \in Range(muts[i])}

\* The range arguments the constructor is given.
InitRanges == {<<0, 1>>} \cup {<<a, b>> : a \in RangeVals, b \in RangeVals}

\* No argument (build() and the field_strength setter, whose value is read
\* from self._field_strength).
NoArg == [kind |-> "-", elems |-> <<>>]

\* The constructor passing its range on to np.random.uniform for the roughness.
new_with_range(wt, muts, fs, range) ==
    LET gs == mutations_to_genotypes(wt, muts)
        h  == hamming_get(Unset, wt, gs)
        r  == CHOOSE v \in uniform(range[1], range[2], Len(gs)) : TRUE
    IN  [wildtype |-> wt, genotypes |-> gs, _field_strength |-> fs,
         _roughness |-> Attr(r), _hamming |-> Attr(h),
         phenotypes |-> fuji(r, fs, h)]

\* The instance __init__ leaves: the genotypes of utils.mutations_to_genotypes,
\* self._field_strength = field_strength, then self.build(), whose read of
\* self.hamming fills self._hamming and whose read of self.roughness finds no
\* self._roughness.  The argument range is not used.
new(wt, muts, fs, range) ==
    LET gs == mutations_to_genotypes(wt, muts)
        h  == hamming_get(Unset, wt, gs)
    IN  [wildtype |-> wt, genotypes |-> gs, _field_strength |-> fs,
         _roughness |-> Unset, _hamming |-> Attr(h),
         phenotypes |-> fuji(roughness_get(Unset, Len(gs)), fs, h)]

__init__(wt, muts, fs, range) ==
    LET self == new(wt, muts, fs, range)
    IN  /\ wildtype = self.wildtype
        /\ mutations = muts
        /\ genotypes = self.genotypes
        /\ _field_strength = self._field_strength
        /\ _roughness = self._roughness
        /\ _hamming = self._hamming
        /\ phenotypes = self.phenotypes
        /\ lastCall = [op |-> "__init__", arg |-> [kind |-> "tuple", elems |-> range]]
        /\ raised = "none"
        /\ history = "default"

Init ==
    \E muts \in Sites :
        /\ size(muts) <= MaxGenotypes
        /\ \E wt \in Wildtypes(muts), fs \in FieldStrengths, range \in InitRanges :
               __init__(wt, muts, fs, range)

-----------------------------------------------------------------------------
\* Methods.

\* The fields of the instance that the methods below never assign.
fixed == <<wildtype, mutations, genotypes>>

\* build computing with the field strength of before the call.
build_stale ==
    /\ _hamming' = Attr(hamming)
    /\ phenotypes' = fuji(roughness', field_strength, hamming)

\* build subtracting the field from the phenotypes it finds.
build_incremental ==
    /\ _hamming' = Attr(hamming)
    /\ phenotypes' = fuji(phenotypes, field_strength', hamming)

\* build scaling the cached hamming vector in place (h *= c) before it subtracts.
build_inplace ==
    /\ _hamming' = Attr([i \in 1..n |-> field_strength' * hamming[i]])
    /\ phenotypes' = fuji(roughness', field_strength', hamming)

\* build(): self.phenotypes = self.roughness - self.field_strength * self.hamming,
\* read from the attributes as the caller has just left them.  The read of
\* self.hamming stores the vector in self._hamming.
build ==
    /\ _hamming' = Attr(hamming)
    /\ phenotypes' = fuji(roughness', field_strength', hamming)

\* A call of build() by the user.
Build ==
    /\ UNCHANGED <<fixed, history, _field_strength, _roughness>>
    /\ build
    /\ lastCall' = [op |-> "build", arg |-> NoArg]
    /\ raised' = "none"

\* The setter dropping the stored roughness before it builds.
field_strength_setter_reset(c) ==
    /\ UNCHANGED <<fixed, history>>
    /\ _roughness' = Unset
    /\ _field_strength' = c
    /\ build
    /\ lastCall' = [op |-> "field_strength", arg |-> NoArg]
    /\ raised' = "none"

\* The setter without its call of build().
field_strength_setter_nobuild(c) ==
    /\ UNCHANGED <<fixed, history, _roughness, _hamming, phenotypes>>
    /\ _field_strength' = c
    /\ lastCall' = [op |-> "field_strength", arg |-> NoArg]
    /\ raised' = "none"

\* The field_strength setter: self._field_strength = c, then self.build().
field_strength_setter(c) ==
    /\ UNCHANGED <<fixed, history, _roughness>>
    /\ _field_strength' = c
    /\ build
    /\ lastCall' = [op |-> "field_strength", arg |-> NoArg]
    /\ raised' = "none"

\* The values set_roughness is called with: None, a tuple, a list, or a number.
None == [kind |-> "None", elems |-> <<>>]
\* Tuples are of arity 0 to 3: every pair over RangeVals, and for the other
\* arities the tuples (), (0,) and (a, a + 1, 0).  Lists are the pairs [a, a + 1].
Pairs == [1..2 -> RangeVals]
Steps == {<<a, a + 1>> : a \in 0..(MaxRange - 1)}
Tuples == Pairs \cup {<<>>, <<0>>} \cup {p \o <<0>> : p \in Steps}
RangeArgs ==
    {None}
    \cup {[kind |-> "tuple", elems |-> e] : e \in Tuples}
    \cup {[kind |-> "list", elems |-> e] : e \in Steps}
    \cup {[kind |-> "number", elems |-> <<1>>]}

\* A statement of a method raises exc: the method ends there, and the
\* attributes stay as the statements before it left them.
raise(exc) ==
    /\ raised' = exc
    /\ UNCHANGED <<phenotypes, _field_strength, _hamming, _roughness>>

\* range[k] as Python evaluates it (k counted from 0): the exception it raises,
\* "none" when it yields range.elems[k + 1].
getitem_error(range, k) ==
    IF range.kind \notin {"tuple", "list"} THEN "TypeError"
    ELSE IF k >= Len(range.elems) THEN "IndexError"
    ELSE "none"

\* The outcomes of np.random.uniform(low, high, size=k): numpy leaves the result
\* undefined when high < low, where it either samples or raises.
uniform_outcomes(low, high) ==
    IF low <= high THEN {"none"} ELSE {"none", "ValueError"}

\* The history after a call of set_roughness(range) that leaves the attribute r.
seen(hist, range, r) ==
    IF hist = "drawn" \/ (range # None /\ r # Unset /\ r # Attr(zeros(n)))
    THEN "drawn"
    ELSE IF range # None THEN "given" ELSE hist

\* set_roughness clearing self._roughness before it looks at range.
set_roughness_clear_first(range) ==
    /\ lastCall' = [op |-> "set_roughness", arg |-> range]
    /\ UNCHANGED <<fixed, _field_strength>>
    /\ IF range = None
       THEN /\ _roughness' = Attr(zeros(n))
            /\ build
            /\ raised' = "none"
       ELSE IF getitem_error(range, 0) # "none" \/ getitem_error(range, 1) # "none"
       THEN /\ _roughness' = Attr(zeros(n))
            /\ raised' = IF getitem_error(range, 0) # "none"
                         THEN getitem_error(range, 0) ELSE getitem_error(range, 1)
            /\ UNCHANGED <<phenotypes, _hamming>>
       ELSE \E v \in uniform(range.elems[1], range.elems[2], n) :
                /\ _roughness' = Attr(v)
                /\ build
                /\ raised' = "none"
    /\ history' = seen(history, range, _roughness')

\* set_roughness building without a reset when range is None.
set_roughness_keep(range) ==
    /\ lastCall' = [op |-> "set_roughness", arg |-> range]
    /\ UNCHANGED <<fixed, _field_strength>>
    /\ IF range = None
       THEN /\ UNCHANGED _roughness
            /\ build
            /\ raised' = "none"
       ELSE IF getitem_error(range, 0) # "none"
       THEN raise(getitem_error(range, 0))
       ELSE IF getitem_error(range, 1) # "none"
       THEN raise(getitem_error(range, 1))
       ELSE \E v \in uniform(range.elems[1], range.elems[2], n) :
                /\ _roughness' = Attr(v)
                /\ build
                /\ raised' = "none"
    /\ history' = seen(history, range, _roughness')

\* set_roughness drawing from 0, not from range[0].
set_roughness_from_zero(range) ==
    /\ lastCall' = [op |-> "set_roughness", arg |-> range]
    /\ UNCHANGED <<fixed, _field_strength>>
    /\ IF range = None
       THEN /\ _roughness' = Attr(zeros(n))
            /\ build
            /\ raised' = "none"
       ELSE IF getitem_error(range, 0) # "none"
       THEN raise(getitem_error(range, 0))
       ELSE IF getitem_error(range, 1) # "none"
       THEN raise(getitem_error(range, 1))
       ELSE \E v \in uniform(0, range.elems[2], n) :
                /\ _roughness' = Attr(v)
                /\ build
                /\ raised' = "none"
    /\ history' = seen(history, range, _roughness')

\* set_roughness(range).  The test of type(range) in the else branch builds an
\* Exception and drops it, so it has no effect and control goes on to the draw.
set_roughness(range) ==
    /\ lastCall' = [op |-> "set_roughness", arg |-> range]
    /\ UNCHANGED <<fixed, _field_strength>>
    /\ IF range = None
       THEN /\ _roughness' = Attr(zeros(n))
            /\ build
            /\ raised' = "none"
       ELSE IF getitem_error(range, 0) # "none"
       THEN raise(getitem_error(range, 0))
       ELSE IF getitem_error(range, 1) # "none"
       THEN raise(getitem_error(range, 1))
       ELSE \E out \in uniform_outcomes(range.elems[1], range.elems[2]) :
                IF out # "none"
                THEN raise(out)
                ELSE \E v \in uniform(range.elems[1], range.elems[2], n) :
                         /\ _roughness' = Attr(v)
                         /\ build
                         /\ raised' = "none"
    /\ history' = seen(history, range, _roughness')

Next ==
    \/ Build
    \/ \E c \in FieldStrengths : field_strength_setter(c)
    \/ \E range \in RangeArgs : set_roughness(range)

Spec == Init /\ [][Next]_vars

-----------------------------------------------------------------------------
\* The class method from_length.

\* Longest genotype from_length is asked for.
MaxFromLength == 4

\* from_length taking each site's last symbol for the wildtype.
from_length_last(length, fs) ==
    LET muts == [i \in 1..length |-> <<"0", "1">>]
    IN  [wildtype |-> [i \in 1..length |-> muts[i][Len(muts[i])]],
         mutations |-> muts, field_strength |-> fs, range |-> <<0, 1>>]

\* from_length(length, field_strength): the arguments it calls the constructor
\* with.  mutations gives every site the alphabet ["0", "1"], the wildtype joins
\* the first symbol of each site, and range keeps the constructor's default.
from_length(length, fs) ==
    LET muts == [i \in 1..length |-> <<"0", "1">>]
    IN  [wildtype |-> [i \in 1..length |-> muts[i][1]],
         mutations |-> muts, field_strength |-> fs, range |-> <<0, 1>>]

InitFromLength ==
    \E length \in 0..MaxFromLength, fs \in FieldStrengths :
        LET a == from_length(length, fs)
        IN  __init__(a.wildtype, a.mutations, a.field_strength, a.range)

\* The arguments of set_roughness that leave one vector to draw at most: the
\* spaces of from_length are too large to draw every vector of a wider range.
NarrowArgs ==
    {range \in RangeArgs :
        \/ getitem_error(range, 0) # "none"
        \/ getitem_error(range, 1) # "none"
        \/ Cardinality(uniform_values(range.elems[1], range.elems[2])) = 1}

NextFromLength ==
    \/ Build
    \/ \E c \in FieldStrengths : field_strength_setter(c)
    \/ \E range \in NarrowArgs : set_roughness(range)

SpecFromLength == InitFromLength /\ [][NextFromLength]_vars

-----------------------------------------------------------------------------
\* Properties.

\* The Mount Fuji law, index by index, on what the properties read now.
Consistent ==
    /\ DOMAIN phenotypes = 1..n
    /\ \A i \in 1..n : phenotypes[i] = roughness[i] - field_strength * hamming[i]

\* range is a tuple of two numbers.
IsPair(range) == range.kind = "tuple" /\ Len(range.elems) = 2

\* Some entry of the roughness read now is not zero.
Rough == \E i \in 1..n : roughness[i] # 0

\* C1: whenever the constructor, a field_strength write, build() or
\* set_roughness has returned, every phenotype is the roughness of its genotype
\* minus the field strength times its hamming distance, on the current values.
C1_PhenotypesConsistent == raised = "none" => Consistent

\* C1 witness: a field_strength write has returned over a drawn roughness.
C1_Witness ==
    /\ lastCall.op = "field_strength"
    /\ raised = "none"
    /\ field_strength = 2
    /\ n = 4
    /\ Rough

\* C2: set_roughness with a range that is neither None nor a tuple of two
\* numbers (a tuple of another arity, a list, a number) raises.
C2_MalformedRangeRaises ==
    (lastCall.op = "set_roughness" /\ lastCall.arg # None /\ ~IsPair(lastCall.arg))
        => raised # "none"

\* C3: set_roughness with a pair (low, high), low > high, raises and stores no
\* roughness.
C3_ReversedRangeRaises ==
    (/\ lastCall.op = "set_roughness"
     /\ IsPair(lastCall.arg)
     /\ lastCall.arg.elems[1] > lastCall.arg.elems[2])
        => raised # "none"

\* C4: after a set_roughness call that raised, the phenotypes still follow the
\* Mount Fuji law on the roughness and the field strength that are read now.
C4_FailedCallConsistent ==
    (lastCall.op = "set_roughness" /\ raised # "none") => Consistent

\* C4 witness: set_roughness has raised on an instance holding a drawn roughness.
C4_Witness ==
    /\ lastCall.op = "set_roughness"
    /\ raised # "none"
    /\ Rough
    /\ field_strength > 0
    /\ n > 1

\* C5: after set_roughness(None) the roughness is all zeros and every phenotype
\* is minus the field strength times the hamming distance, whatever was stored.
C5_NoneResets ==
    (lastCall.op = "set_roughness" /\ lastCall.arg = None) =>
        /\ raised = "none"
        /\ roughness = zeros(n)
        /\ \A i \in 1..n : phenotypes[i] = 0 - field_strength * hamming[i]

\* C5 witness: set_roughness(None) has returned on an instance in which a
\* roughness that was not all zeros had been stored.
C5_Witness ==
    /\ lastCall.op = "set_roughness"
    /\ lastCall.arg = None
    /\ history = "drawn"
    /\ field_strength > 0
    /\ n > 1

\* C6: while set_roughness has not been called with a range other than None,
\* roughness reads as n zeros and every phenotype is minus the field strength
\* times the hamming distance.
C6_DefaultState ==
    history = "default" =>
        /\ DOMAIN roughness = 1..n
        /\ \A i \in 1..n : roughness[i] = 0
        /\ \A i \in 1..n : phenotypes[i] = 0 - field_strength * hamming[i]

\* C6 witness: the default state after set_roughness(None) and a later
\* field_strength write.
C6_Witness ==
    /\ history = "default"
    /\ lastCall.op = "field_strength"
    /\ _roughness # Unset
    /\ field_strength > 0
    /\ n > 1

\* C7: a field_strength write leaves the roughness read, the hamming read, the
\* wildtype and the genotypes as they were.
C7_WriteKeepsRoughness ==
    [][lastCall'.op = "field_strength" =>
          /\ roughness' = roughness
          /\ hamming' = hamming
          /\ wildtype' = wildtype
          /\ genotypes' = genotypes]_vars

\* C7 witness: a field_strength write has returned over a drawn roughness
\* whose entries differ.
C7_Witness ==
    /\ lastCall.op = "field_strength"
    /\ _roughness # Unset
    /\ \E i, j \in 1..n : roughness[i] # roughness[j]

\* C8: after a field_strength write the phenotypes, the roughness and the
\* hamming vector are those of an instance constructed with that field strength
\* over the same wildtype and mutations and given the same roughness.
C8_WriteEqualsConstruction ==
    lastCall.op = "field_strength" =>
        LET direct == new(wildtype, mutations, field_strength, <<0, 1>>)
        IN  /\ genotypes = direct.genotypes
            /\ hamming = direct._hamming[1]
            /\ roughness = zeros(n) => phenotypes = direct.phenotypes
            /\ \A i \in 1..n :
                   phenotypes[i] =
                       roughness[i] - direct._field_strength * direct._hamming[1][i]

\* C8 witness: a field_strength write has returned on a space of four
\* genotypes, once without roughness and with a field that shows.
C8_Witness ==
    /\ lastCall.op = "field_strength"
    /\ roughness = zeros(n)
    /\ field_strength = 2
    /\ n = 4

\* C9: build() called right after build() leaves the phenotypes as they were,
\* and build() changes neither the field strength nor the roughness nor the
\* hamming vector.
C9_BuildIdempotent ==
    [][lastCall'.op = "build" =>
          /\ lastCall.op = "build" => phenotypes' = phenotypes
          /\ field_strength' = field_strength
          /\ roughness' = roughness
          /\ hamming' = hamming]_vars

\* C9 witness: build() has returned on an instance with a field and a drawn
\* roughness.
C9_Witness ==
    /\ lastCall.op = "build"
    /\ Rough
    /\ field_strength > 0
    /\ n > 1

\* The positions at which genotype g differs from the wildtype.
Differing(g) == {k \in 1..Len(wildtype) : g[k] # wildtype[k]}

\* C10: hamming[i] is the number of positions at which genotype i differs from
\* the wildtype, a natural number, zero exactly for the wildtype.
C10_HammingCounts ==
    \A i \in 1..n :
        /\ hamming[i] = Cardinality(Differing(genotypes[i]))
        /\ hamming[i] \in Nat
        /\ hamming[i] = 0 <=> genotypes[i] = wildtype

\* C10 witness: a wildtype that is not the first genotype, and a genotype that
\* differs from it at two positions.
C10_Witness ==
    /\ genotypes[1] # wildtype
    /\ \E i \in 1..n : hamming[i] = 2

\* The vector the loop of the hamming property computes for this instance.
Distances == [i \in 1..n |-> hamming_distance(wildtype, genotypes[i])]

\* C11: self._hamming is there from the constructor on, and no call, returning
\* or raising, changes it: every step leaves the attribute and the vector the
\* hamming property reads as they were.
C11_HammingCached ==
    [][/\ _hamming # Unset
       /\ _hamming' = _hamming
       /\ hamming' = hamming]_vars

\* C11 witness: a field_strength write has returned, after set_roughness had
\* drawn a roughness, and hamming still reads the distances of the genotypes.
C11_Witness ==
    /\ lastCall.op = "field_strength"
    /\ history = "drawn"
    /\ field_strength = 2
    /\ n = 4
    /\ hamming = Distances
    /\ \E i \in 1..n : hamming[i] = 2

\* The number of "1" symbols of genotype g.
Ones(g) == Cardinality({k \in 1..Len(g) : g[k] = "1"})

\* The phenotype of genotype g.
Phenotype(g) == phenotypes[CHOOSE i \in 1..n : genotypes[i] = g]

\* C12: an instance made by from_length(L, c) has the wildtype of L "0"
\* symbols and every binary string of length L as its genotypes, each once;
\* while no roughness is stored, the phenotype of a genotype is minus the field
\* strength times its number of "1" symbols: -8 for "1111" with L = 4 and field
\* strength 2, and -3, 0, -2 for "111", "000", "101" with L = 3 and field
\* strength 1.
C12_FromLength ==
    LET L == Len(mutations)
    IN  /\ wildtype = [k \in 1..L |-> "0"]
        /\ Range(genotypes) = [1..L -> {"0", "1"}]
        /\ n = 2 ^ L
        /\ _roughness = Unset =>
               \A i \in 1..n :
                   phenotypes[i] = 0 - field_strength * Ones(genotypes[i])
        /\ (L = 4 /\ field_strength = 2 /\ _roughness = Unset) =>
               /\ wildtype = <<"0", "0", "0", "0">>
               /\ n = 16
               /\ Phenotype(<<"1", "1", "1", "1">>) = 0 - 8
        /\ (L = 3 /\ field_strength = 1 /\ _roughness = Unset) =>
               /\ n = 8
               /\ Phenotype(<<"1", "1", "1">>) = 0 - 3
               /\ Phenotype(<<"0", "0", "0">>) = 0
               /\ Phenotype(<<"1", "0", "1">>) = 0 - 2

\* C12 witness: from_length(4, 2) has just returned.
C12_Witness ==
    /\ lastCall.op = "__init__"
    /\ Len(wildtype) = 4
    /\ field_strength = 2
    /\ n = 16
    /\ \E i \in 1..n : genotypes[i] = <<"1", "1", "1", "1">> /\ phenotypes[i] = 0 - 8

\* The call that returned last is set_roughness((low, high)) with low < high.
Drawn(call, exc) ==
    /\ call.op = "set_roughness"
    /\ exc = "none"
    /\ IsPair(call.arg)
    /\ call.arg.elems[1] < call.arg.elems[2]

\* C13 as claimed: once set_roughness((low, high)), low < high, has returned,
\* the roughness has one entry for each genotype, each at least low and below
\* high, and it stays as it is over every call that is not set_roughness.
C13_HalfOpenRange ==
    [][/\ Drawn(lastCall', raised') =>
              /\ DOMAIN roughness' = 1..n'
              /\ \A i \in 1..n' :
                     /\ lastCall'.arg.elems[1] <= roughness'[i]
                     /\ roughness'[i] < lastCall'.arg.elems[2]
       /\ lastCall'.op # "set_roughness" => roughness' = roughness]_vars

\* C13 as amended: the entries are at least low and at most high.
C13_ClosedRange ==
    [][/\ Drawn(lastCall', raised') =>
              /\ DOMAIN roughness' = 1..n'
              /\ \A i \in 1..n' :
                     /\ lastCall'.arg.elems[1] <= roughness'[i]
                     /\ roughness'[i] <= lastCall'.arg.elems[2]
       /\ lastCall'.op # "set_roughness" => roughness' = roughness]_vars

\* C13 witness: set_roughness((low, high)), low < high, has returned on four
\* genotypes with one entry equal to low and another equal to high.
C13_Witness ==
    /\ n = 4
    /\ Drawn(lastCall, raised)
    /\ \E i, j \in 1..n :
           /\ roughness[i] = lastCall.arg.elems[1]
           /\ roughness[j] = lastCall.arg.elems[2]

====
